---- MODULE Spec2Model ----
(***************************************************************************)
(* The environment / project toggle and sort-order subsystem of Unleash.   *)
(*                                                                         *)
(* The request handlers are those of EnvironmentsController (admin API).   *)
(* The EnvironmentService they call and the project-environment link       *)
(* service are not part of the source excerpt: they are modelled from the  *)
(* design document (spec.md, sections 3, 4 and 7) and carry the prefix     *)
(* service_ .                                                              *)
(*                                                                         *)
(* One step of Spec is one whole HTTP request: the handler, the service    *)
(* call it awaits, and the response it writes.  SpecAwait splits a request *)
(* at the await of its handler, SpecRace runs two updateSortOrder requests *)
(* at once, and SpecMilestones is the MilestoneList component of the       *)
(* frontend.  SpecBootstrap is the bootstrap script with loadConfig,       *)
(* SpecResponses a call of getStandardResponses, and SpecController the    *)
(* constructor of the controller followed by the routing of requests.      *)
(***************************************************************************)
EXTENDS Integers, Sequences, FiniteSets, TLC

VARIABLES
    environments,         \* the Environment table: a set of rows
    projectEnvironments,  \* the ProjectEnvironment link table: a set of rows
    req,                  \* the request handled by the last step
    res,                  \* the response (or rejection) of the last step
    promise,              \* the service call the handler in progress awaits
    calls,                \* the updateSortOrder requests that run at once
    snapshot,             \* the Environment table when those requests began
    milestones,           \* the milestones state of MilestoneList
    event,                \* the last event MilestoneList handled
    process,              \* the Node process that runs the bootstrap script
    reduction,            \* the reduce of a call of getStandardResponses
    router                \* the routes of EnvironmentsController, and a request

vars == <<environments, projectEnvironments, req, res, promise, calls, snapshot,
          milestones, event, process, reduction, router>>

\* the bootstrap script, the OpenAPI utilities and the route table
Wiring == <<process, reduction, router>>

----------------------------------------------------------------------------
(* Bounds of the model *)

MaxSortOrder == 1

\* the longest list of milestones, and the longest one the component starts with
MaxMilestones == 4

MaxInitialMilestones == 2

SortOrders == 0 .. MaxSortOrder

\* environment names, in lexicographic order
NameOrder == <<"a", "b">>

Names == {NameOrder[i] : i \in 1 .. Len(NameOrder)}

\* names a request may carry: the empty name is malformed input
RequestNames == Names \cup {""}

Types == {"development", "production"}

\* projects are external entities: the ones that exist, and an id of none
ExistingProjects == {"p1", "p2"}

ProjectIds == ExistingProjects \cup {"p0"}

----------------------------------------------------------------------------
(* Data model (spec.md section 3) *)

Environment == [name : Names, type : Types, enabled : BOOLEAN, sortOrder : SortOrders]

ProjectEnvironment ==
    [projectId : ExistingProjects, environmentName : Names, enabledForProject : BOOLEAN]

\* sort-order maps: a sort order for a subset of the names
EmptyMap == [n \in {} |-> 0]

SortOrderSchema == UNION {[S -> SortOrders] : S \in SUBSET Names}

\* position of a name in the lexicographic order of names
NameRank(n) == CHOOSE i \in 1 .. Len(NameOrder) : NameOrder[i] = n

\* a bug: ORDER BY sortOrder DESC, name ASC
EnvBefore_descending(x, y) ==
    \/ x.sortOrder > y.sortOrder
    \/ x.sortOrder = y.sortOrder /\ NameRank(x.name) <= NameRank(y.name)

\* ORDER BY sortOrder ASC, name ASC
EnvBefore(x, y) ==
    \/ x.sortOrder < y.sortOrder
    \/ x.sortOrder = y.sortOrder /\ NameRank(x.name) <= NameRank(y.name)

RECURSIVE Ordered(_)
Ordered(rows) ==
    IF rows = {} THEN <<>>
    ELSE LET first == CHOOSE x \in rows : \A y \in rows : EnvBefore(x, y)
         IN <<first>> \o Ordered(rows \ {first})

Exists(envs, n) == \E e \in envs : e.name = n

Row(envs, n) == CHOOSE e \in envs : e.name = n

----------------------------------------------------------------------------
(* Results of a service call: the error thrown ("" when none), the         *)
(* Environment table after the call, and the value returned.               *)

Returned(envs, rows, flag) ==
    [error |-> "", environments |-> envs, value |-> rows, flag |-> flag]

Thrown(envs, kind) ==
    [error |-> kind, environments |-> envs, value |-> <<>>, flag |-> FALSE]

----------------------------------------------------------------------------
(* Environment Domain Service (spec.md section 4.1) *)

\* a bug: the row is created with the enabled flag set
service_createEnvironments_enabled(envs, body, storeDefault) ==
    IF body.name = "" THEN Thrown(envs, "ValidationError")
    ELSE IF Exists(envs, body.name) THEN Thrown(envs, "ConflictError")
    ELSE LET created ==
                 [name      |-> body.name,
                  type      |-> body.type,
                  enabled   |-> TRUE,
                  sortOrder |-> IF body.sortOrder = {} THEN storeDefault
                                ELSE CHOOSE s \in body.sortOrder : TRUE]
         IN Returned(envs \cup {created}, <<created>>, FALSE)

\* body: [name, type, sortOrder] with sortOrder a set of at most one order;
\* storeDefault is the order the store gives a row created without one
service_createEnvironments(envs, body, storeDefault) ==
    IF body.name = "" THEN Thrown(envs, "ValidationError")
    ELSE IF Exists(envs, body.name) THEN Thrown(envs, "ConflictError")
    ELSE LET created ==
                 [name      |-> body.name,
                  type      |-> body.type,
                  enabled   |-> FALSE,
                  sortOrder |-> IF body.sortOrder = {} THEN storeDefault
                                ELSE CHOOSE s \in body.sortOrder : TRUE]
         IN Returned(envs \cup {created}, <<created>>, FALSE)

service_validateEnvName(envs, body) ==
    Returned(envs, <<>>, ~Exists(envs, body.name))

\* the name of the patch, if any, is not applied: name is the identifier
service_updateEnvironment(envs, body, name) ==
    IF ~Exists(envs, name) THEN Thrown(envs, "NotFoundError")
    ELSE Returned({IF e.name = name THEN [e EXCEPT !.type = body.type] ELSE e : e \in envs},
                  <<>>, FALSE)

EnabledEnvironments(envs) == {e \in envs : e.enabled}

Referenced(links, name) == \E l \in links : l.environmentName = name

LastEnabled(envs, name) ==
    /\ EnabledEnvironments(envs) # {}
    /\ \A e \in EnabledEnvironments(envs) : e.name = name

\* a bug: only the project links guard the deletion
service_deleteEnvironment_linksOnly(envs, links, name) ==
    IF ~Exists(envs, name) THEN Thrown(envs, "NotFoundError")
    ELSE IF Referenced(links, name) THEN Thrown(envs, "ConflictError")
    ELSE Returned({e \in envs : e.name # name}, <<>>, FALSE)

service_deleteEnvironment(envs, links, name) ==
    IF ~Exists(envs, name) THEN Thrown(envs, "NotFoundError")
    ELSE IF Referenced(links, name) \/ LastEnabled(envs, name)
         THEN Thrown(envs, "ConflictError")
    ELSE Returned({e \in envs : e.name # name}, <<>>, FALSE)

service_toggleEnvironment(envs, name, enabled) ==
    IF ~Exists(envs, name) THEN Thrown(envs, "NotFoundError")
    ELSE Returned({IF e.name = name THEN [e EXCEPT !.enabled = enabled] ELSE e : e \in envs},
                  <<>>, FALSE)

service_getAll(envs) == Returned(envs, Ordered(envs), FALSE)

service_get(envs, name) ==
    IF ~Exists(envs, name) THEN Thrown(envs, "NotFoundError")
    ELSE Returned(envs, <<Row(envs, name)>>, FALSE)

\* one transactional write: every listed order is applied, or none is
service_updateSortOrder(envs, orderMap) ==
    IF \E n \in DOMAIN orderMap : ~Exists(envs, n) THEN Thrown(envs, "NotFoundError")
    ELSE Returned({IF e.name \in DOMAIN orderMap
                      THEN [e EXCEPT !.sortOrder = orderMap[e.name]]
                      ELSE e : e \in envs},
                  <<>>, FALSE)

----------------------------------------------------------------------------
(* Project-Environment Link Service (spec.md section 4.2) *)

LinkedTo(links, projectId) ==
    {l.environmentName : l \in {k \in links : k.projectId = projectId /\ k.enabledForProject}}

\* a read-time join: globally enabled AND enabled for the project
service_getProjectEnvironments(envs, links, projectId) ==
    IF projectId \notin ExistingProjects THEN Thrown(envs, "NotFoundError")
    ELSE Returned(envs,
                  Ordered({e \in envs : e.enabled /\ e.name \in LinkedTo(links, projectId)}),
                  FALSE)

\* a bug: the global flag is not checked before the link is made
service_enableProjectEnvironment_ungated(envs, links, projectId, name) ==
    IF projectId \notin ExistingProjects \/ ~Exists(envs, name)
    THEN [error |-> "NotFoundError", links |-> links]
    ELSE [error |-> "",
          links |-> {l \in links : ~(l.projectId = projectId /\ l.environmentName = name)}
                    \cup {[projectId |-> projectId, environmentName |-> name,
                           enabledForProject |-> TRUE]}]

\* the links after the call, and the error thrown
service_enableProjectEnvironment(envs, links, projectId, name) ==
    IF projectId \notin ExistingProjects \/ ~Exists(envs, name)
    THEN [error |-> "NotFoundError", links |-> links]
    ELSE IF ~Row(envs, name).enabled
    THEN [error |-> "PreconditionFailedError", links |-> links]
    ELSE [error |-> "",
          links |-> {l \in links : ~(l.projectId = projectId /\ l.environmentName = name)}
                    \cup {[projectId |-> projectId, environmentName |-> name,
                           enabledForProject |-> TRUE]}]

----------------------------------------------------------------------------
(* Requests and responses *)

\* patch is the name an update body carries ("" in every other request)
Request(op, name, projectId, type, sortOrder, orderMap) ==
    [op |-> op, name |-> name, projectId |-> projectId, type |-> type,
     sortOrder |-> sortOrder, orderMap |-> orderMap, patch |-> ""]

NoRequest == Request("", "", "", "", {}, EmptyMap)

\* res.status(status).json(body) / .end(): status is 0 while none is written
Respond(status, rows, flag) ==
    [status |-> status, error |-> "", body |-> rows, flag |-> flag]

\* the handler's promise rejects: no status is written, the error propagates
Reject(kind) == [status |-> 0, error |-> kind, body |-> <<>>, flag |-> FALSE]

NoResponse == Respond(0, <<>>, FALSE)

\* request bodies
CreateBodies ==
    [name : RequestNames, type : Types, sortOrder : {{}} \cup {{s} : s \in SortOrders}]

UpdateBodies == [name : Names, type : Types]

\* the orders the store may give a created row: any, when the body has none
StoreDefaults(body) == IF body.sortOrder = {} THEN SortOrders ELSE body.sortOrder

----------------------------------------------------------------------------
(* EnvironmentsController handlers *)

\* a bug: the service call is not awaited, 201 is written whatever it does
createEnvironment_notAwaited(body, storeDefault) ==
    LET createRes == service_createEnvironments(environments, body, storeDefault)
    IN /\ req' = Request("createEnvironment", body.name, "", body.type, body.sortOrder, EmptyMap)
       /\ environments' = createRes.environments
       /\ res' = Respond(201, createRes.value, FALSE)
       /\ UNCHANGED projectEnvironments

createEnvironment(body, storeDefault) ==
    LET createRes == service_createEnvironments(environments, body, storeDefault)
    IN /\ req' = Request("createEnvironment", body.name, "", body.type, body.sortOrder, EmptyMap)
       /\ environments' = createRes.environments
       /\ res' = IF createRes.error = "" THEN Respond(201, createRes.value, FALSE)
                 ELSE Reject(createRes.error)
       /\ UNCHANGED projectEnvironments

\* a bug: the service call is not awaited, 200 is written whatever it does
updateEnvironment_notAwaited(name, body) ==
    LET r == service_updateEnvironment(environments, body, name)
    IN /\ req' = [Request("updateEnvironment", name, "", body.type, {}, EmptyMap)
                     EXCEPT !.patch = body.name]
       /\ environments' = r.environments
       /\ res' = Respond(200, <<>>, FALSE)
       /\ UNCHANGED projectEnvironments

\* a bug: the environment is addressed by the name of the body, not of the path
updateEnvironment_bodyName(name, body) ==
    LET r == service_updateEnvironment(environments, body, body.name)
    IN /\ req' = [Request("updateEnvironment", name, "", body.type, {}, EmptyMap)
                     EXCEPT !.patch = body.name]
       /\ environments' = r.environments
       /\ res' = IF r.error = "" THEN Respond(200, <<>>, FALSE) ELSE Reject(r.error)
       /\ UNCHANGED projectEnvironments

updateEnvironment(name, body) ==
    LET r == service_updateEnvironment(environments, body, name)
    IN /\ req' = [Request("updateEnvironment", name, "", body.type, {}, EmptyMap)
                     EXCEPT !.patch = body.name]
       /\ environments' = r.environments
       /\ res' = IF r.error = "" THEN Respond(200, <<>>, FALSE) ELSE Reject(r.error)
       /\ UNCHANGED projectEnvironments

\* a bug: the service call is not awaited, 204 is written whatever it does
deleteEnvironment_notAwaited(name) ==
    LET r == service_deleteEnvironment(environments, projectEnvironments, name)
    IN /\ req' = Request("deleteEnvironment", name, "", "", {}, EmptyMap)
       /\ environments' = r.environments
       /\ res' = Respond(204, <<>>, FALSE)
       /\ UNCHANGED projectEnvironments

deleteEnvironment(name) ==
    LET r == service_deleteEnvironment(environments, projectEnvironments, name)
    IN /\ req' = Request("deleteEnvironment", name, "", "", {}, EmptyMap)
       /\ environments' = r.environments
       /\ res' = IF r.error = "" THEN Respond(204, <<>>, FALSE) ELSE Reject(r.error)
       /\ UNCHANGED projectEnvironments

\* a bug: the answer of the service is negated
validateEnvironment_negated(body) ==
    LET nameExists == service_validateEnvName(environments, body)
    IN /\ req' = Request("validateEnvironment", body.name, "", "", {}, EmptyMap)
       /\ res' = Respond(201, <<>>, ~nameExists.flag)
       /\ UNCHANGED <<environments, projectEnvironments>>

validateEnvironment(body) ==
    LET nameExists == service_validateEnvName(environments, body)
    IN /\ req' = Request("validateEnvironment", body.name, "", "", {}, EmptyMap)
       /\ res' = Respond(201, <<>>, nameExists.flag)
       /\ UNCHANGED <<environments, projectEnvironments>>

getAllEnvironments ==
    LET r == service_getAll(environments)
    IN /\ req' = Request("getAllEnvironments", "", "", "", {}, EmptyMap)
       /\ res' = Respond(200, r.value, FALSE)
       /\ UNCHANGED <<environments, projectEnvironments>>

\* a bug: the service call is not awaited, 200 is written whatever it does
updateSortOrder_notAwaited(body) ==
    LET r == service_updateSortOrder(environments, body)
    IN /\ req' = Request("updateSortOrder", "", "", "", {}, body)
       /\ environments' = r.environments
       /\ res' = Respond(200, <<>>, FALSE)
       /\ UNCHANGED projectEnvironments

\* a bug: req.params (empty on this route) is passed in place of req.body
updateSortOrder_params(body) ==
    LET r == service_updateSortOrder(environments, EmptyMap)
    IN /\ req' = Request("updateSortOrder", "", "", "", {}, body)
       /\ environments' = r.environments
       /\ res' = IF r.error = "" THEN Respond(200, <<>>, FALSE) ELSE Reject(r.error)
       /\ UNCHANGED projectEnvironments

updateSortOrder(body) ==
    LET r == service_updateSortOrder(environments, body)
    IN /\ req' = Request("updateSortOrder", "", "", "", {}, body)
       /\ environments' = r.environments
       /\ res' = IF r.error = "" THEN Respond(200, <<>>, FALSE) ELSE Reject(r.error)
       /\ UNCHANGED projectEnvironments

\* a bug: the on route passes false, as the off route does
toggleEnvironmentOn_false(name) ==
    LET r == service_toggleEnvironment(environments, name, FALSE)
    IN /\ req' = Request("toggleEnvironmentOn", name, "", "", {}, EmptyMap)
       /\ environments' = r.environments
       /\ res' = IF r.error = "" THEN Respond(204, <<>>, FALSE) ELSE Reject(r.error)
       /\ UNCHANGED projectEnvironments

toggleEnvironmentOn(name) ==
    LET r == service_toggleEnvironment(environments, name, TRUE)
    IN /\ req' = Request("toggleEnvironmentOn", name, "", "", {}, EmptyMap)
       /\ environments' = r.environments
       /\ res' = IF r.error = "" THEN Respond(204, <<>>, FALSE) ELSE Reject(r.error)
       /\ UNCHANGED projectEnvironments

\* a bug: the off route passes true, as the on route does
toggleEnvironmentOff_true(name) ==
    LET r == service_toggleEnvironment(environments, name, TRUE)
    IN /\ req' = Request("toggleEnvironmentOff", name, "", "", {}, EmptyMap)
       /\ environments' = r.environments
       /\ res' = IF r.error = "" THEN Respond(204, <<>>, FALSE) ELSE Reject(r.error)
       /\ UNCHANGED projectEnvironments

toggleEnvironmentOff(name) ==
    LET r == service_toggleEnvironment(environments, name, FALSE)
    IN /\ req' = Request("toggleEnvironmentOff", name, "", "", {}, EmptyMap)
       /\ environments' = r.environments
       /\ res' = IF r.error = "" THEN Respond(204, <<>>, FALSE) ELSE Reject(r.error)
       /\ UNCHANGED projectEnvironments

getEnvironment(name) ==
    LET r == service_get(environments, name)
    IN /\ req' = Request("getEnvironment", name, "", "", {}, EmptyMap)
       /\ res' = IF r.error = "" THEN Respond(200, r.value, FALSE) ELSE Reject(r.error)
       /\ UNCHANGED <<environments, projectEnvironments>>

\* a bug: the handler answers with every environment, as getAllEnvironments does
getProjectEnvironments_getAll(projectId) ==
    LET r == service_getAll(environments)
    IN /\ req' = Request("getProjectEnvironments", "", projectId, "", {}, EmptyMap)
       /\ res' = IF r.error = "" THEN Respond(200, r.value, FALSE) ELSE Reject(r.error)
       /\ UNCHANGED <<environments, projectEnvironments>>

getProjectEnvironments(projectId) ==
    LET r == service_getProjectEnvironments(environments, projectEnvironments, projectId)
    IN /\ req' = Request("getProjectEnvironments", "", projectId, "", {}, EmptyMap)
       /\ res' = IF r.error = "" THEN Respond(200, r.value, FALSE) ELSE Reject(r.error)
       /\ UNCHANGED <<environments, projectEnvironments>>

\* the project-level enable of the link service (its handler is outside the excerpt)
enableProjectEnvironment(projectId, name) ==
    LET r == service_enableProjectEnvironment(environments, projectEnvironments, projectId, name)
    IN /\ req' = Request("enableProjectEnvironment", name, projectId, "", {}, EmptyMap)
       /\ projectEnvironments' = r.links
       /\ res' = IF r.error = "" THEN Respond(204, <<>>, FALSE) ELSE Reject(r.error)
       /\ UNCHANGED environments

----------------------------------------------------------------------------
(* A request split at the await of its handler *)

\* the promise of the awaited service call: none, pending, fulfilled, rejected
Promise(state, error, rows, flag) ==
    [state |-> state, error |-> error, value |-> rows, flag |-> flag]

NoPromise == Promise("none", "", <<>>, FALSE)

\* the handlers that call a service operation which may change the store
Awaiting == {"createEnvironment", "updateEnvironment", "deleteEnvironment",
             "validateEnvironment", "updateSortOrder", "toggleEnvironmentOn",
             "toggleEnvironmentOff"}

\* the requests of those handlers
AwaitRequests ==
    {Request("createEnvironment", b.name, "", b.type, b.sortOrder, EmptyMap) : b \in CreateBodies}
    \cup {[Request("updateEnvironment", n, "", b.type, {}, EmptyMap) EXCEPT !.patch = b.name] :
              n \in Names, b \in UpdateBodies}
    \cup {Request(op, n, "", "", {}, EmptyMap) :
              op \in {"deleteEnvironment", "toggleEnvironmentOn", "toggleEnvironmentOff"},
              n \in Names}
    \cup {Request("validateEnvironment", n, "", "", {}, EmptyMap) : n \in RequestNames}
    \cup {Request("updateSortOrder", "", "", "", {}, m) : m \in SortOrderSchema}

\* the status each handler writes after its await
SuccessStatus(op) ==
    CASE op = "createEnvironment"    -> 201
      [] op = "updateEnvironment"    -> 200
      [] op = "deleteEnvironment"    -> 204
      [] op = "validateEnvironment"  -> 201
      [] op = "updateSortOrder"      -> 200
      [] op = "toggleEnvironmentOn"  -> 204
      [] op = "toggleEnvironmentOff" -> 204

\* the service call each handler awaits
ServiceCall(envs, links, request, storeDefault) ==
    CASE request.op = "createEnvironment" ->
             service_createEnvironments(
                 envs,
                 [name |-> request.name, type |-> request.type, sortOrder |-> request.sortOrder],
                 storeDefault)
      [] request.op = "updateEnvironment" ->
             service_updateEnvironment(
                 envs, [name |-> request.patch, type |-> request.type], request.name)
      [] request.op = "deleteEnvironment" -> service_deleteEnvironment(envs, links, request.name)
      [] request.op = "validateEnvironment" ->
             service_validateEnvName(envs, [name |-> request.name])
      [] request.op = "updateSortOrder" -> service_updateSortOrder(envs, request.orderMap)
      [] request.op = "toggleEnvironmentOn" ->
             service_toggleEnvironment(envs, request.name, TRUE)
      [] request.op = "toggleEnvironmentOff" ->
             service_toggleEnvironment(envs, request.name, FALSE)

\* a bug: the call is not awaited, the status is written as soon as it is made
handlerInvoked_notAwaited(request) ==
    /\ promise.state = "none"
    /\ req' = request
    /\ res' = Respond(SuccessStatus(request.op), <<>>, FALSE)
    /\ promise' = Promise("pending", "", <<>>, FALSE)
    /\ UNCHANGED <<environments, projectEnvironments, calls, snapshot, milestones, event, Wiring>>

\* the handler runs up to its await: the service call is made, nothing is written
handlerInvoked(request) ==
    /\ promise.state = "none"
    /\ req' = request
    /\ res' = NoResponse
    /\ promise' = Promise("pending", "", <<>>, FALSE)
    /\ UNCHANGED <<environments, projectEnvironments, calls, snapshot, milestones, event, Wiring>>

\* the service call completes: it returns or throws
serviceSettles(storeDefault) ==
    /\ promise.state = "pending"
    /\ LET r == ServiceCall(environments, projectEnvironments, req, storeDefault)
       IN /\ environments' = r.environments
          /\ promise' = Promise(IF r.error = "" THEN "fulfilled" ELSE "rejected",
                                r.error, r.value, r.flag)
    /\ UNCHANGED <<projectEnvironments, req, res, calls, snapshot, milestones, event, Wiring>>

\* the handler runs on after its await: it writes its status, or rejects
handlerResumes ==
    /\ promise.state \in {"fulfilled", "rejected"}
    /\ res' = IF promise.state = "fulfilled"
              THEN Respond(SuccessStatus(req.op), promise.value, promise.flag)
              ELSE Reject(promise.error)
    /\ promise' = NoPromise
    /\ UNCHANGED <<environments, projectEnvironments, req, calls, snapshot, milestones, event, Wiring>>

----------------------------------------------------------------------------
(* Two updateSortOrder requests at once *)

CallIds == {1, 2}

Call(pc, body, error, status) == [pc |-> pc, body |-> body, error |-> error, status |-> status]

NoCalls == [i \in CallIds |-> Call("idle", EmptyMap, "", 0)]

\* the tables the two requests may find: names are unique
RaceStores ==
    {envs \in SUBSET [name : Names, type : {"development"}, enabled : {FALSE},
                      sortOrder : SortOrders] :
        \A x, y \in envs : x.name = y.name => x = y}

\* request i reaches its await: service.updateSortOrder(req.body) is called
raceInvoked(i, body) ==
    /\ calls[i].pc = "idle"
    /\ calls' = [calls EXCEPT ![i] = Call("awaiting", body, "", 0)]
    /\ UNCHANGED <<environments, projectEnvironments, req, res, promise, snapshot,
                   milestones, event, Wiring>>

\* a bug: no transaction, the table read when the requests began is
\* re-ordered and written back
raceCommits_staleTable(i) ==
    /\ calls[i].pc = "awaiting"
    /\ LET r == service_updateSortOrder(snapshot, calls[i].body)
       IN /\ environments' = IF r.error = "" THEN r.environments ELSE environments
          /\ calls' = [calls EXCEPT ![i] = Call("settled", calls[i].body, r.error, 0)]
    /\ UNCHANGED <<projectEnvironments, req, res, promise, snapshot, milestones, event, Wiring>>

\* the single transactional write of request i, on the table as it is now
raceCommits(i) ==
    /\ calls[i].pc = "awaiting"
    /\ LET r == service_updateSortOrder(environments, calls[i].body)
       IN /\ environments' = r.environments
          /\ calls' = [calls EXCEPT ![i] = Call("settled", calls[i].body, r.error, 0)]
    /\ UNCHANGED <<projectEnvironments, req, res, promise, snapshot, milestones, event, Wiring>>

\* the handler of request i runs on after its await
raceResumes(i) ==
    /\ calls[i].pc = "settled"
    /\ calls' = [calls EXCEPT ![i] = Call("done", calls[i].body, calls[i].error,
                                          IF calls[i].error = "" THEN 200 ELSE 0)]
    /\ UNCHANGED <<environments, projectEnvironments, req, res, promise, snapshot,
                   milestones, event, Wiring>>

----------------------------------------------------------------------------
(* MilestoneList (frontend) *)

\* names typed into a milestone card
TypedNames == {"Alpha", "Milestone 1"}

\* indices a card may report: 0-based, and one past the longest list
Indices == 0 .. MaxMilestones

Event(kind, index, name) == [kind |-> kind, index |-> index, name |-> name]

NoEvent == Event("", 0, "")

\* the lists the parent may hand over: the milestone at index i has sortOrder i
RECURSIVE InitialMilestones(_)
InitialMilestones(n) ==
    IF n = 0 THEN {<<>>}
    ELSE InitialMilestones(n - 1) \cup
         {Append(l, [name |-> nm, sortOrder |-> n - 1]) :
             l \in {k \in InitialMilestones(n - 1) : Len(k) = n - 1}, nm \in TypedNames}

\* a bug: the other milestones are renamed
milestoneNameChanged_others(index, name) ==
    /\ milestones' = [p \in 1 .. Len(milestones) |->
                         IF p - 1 # index THEN [milestones[p] EXCEPT !.name = name]
                         ELSE milestones[p]]
    /\ event' = Event("milestoneNameChanged", index, name)
    /\ UNCHANGED <<environments, projectEnvironments, req, res, promise, calls, snapshot, Wiring>>

\* setMilestones(prev => prev.map((milestone, i) => i === index ? {...milestone, name} : milestone))
milestoneNameChanged(index, name) ==
    /\ milestones' = [p \in 1 .. Len(milestones) |->
                         IF p - 1 = index THEN [milestones[p] EXCEPT !.name = name]
                         ELSE milestones[p]]
    /\ event' = Event("milestoneNameChanged", index, name)
    /\ UNCHANGED <<environments, projectEnvironments, req, res, promise, calls, snapshot, Wiring>>

\* a bug: the new milestone is numbered like its name, one too high
addMilestone_oneBased ==
    /\ Len(milestones) < MaxMilestones
    /\ milestones' = milestones \o
           <<[name      |-> "Milestone " \o ToString(Len(milestones) + 1),
              sortOrder |-> Len(milestones) + 1]>>
    /\ event' = Event("addMilestone", Len(milestones), "")
    /\ UNCHANGED <<environments, projectEnvironments, req, res, promise, calls, snapshot, Wiring>>

\* onClick of the 'Add milestone' button
addMilestone ==
    /\ Len(milestones) < MaxMilestones
    /\ milestones' = milestones \o
           <<[name      |-> "Milestone " \o ToString(Len(milestones) + 1),
              sortOrder |-> Len(milestones)]>>
    /\ event' = Event("addMilestone", Len(milestones), "")
    /\ UNCHANGED <<environments, projectEnvironments, req, res, promise, calls, snapshot, Wiring>>

----------------------------------------------------------------------------
(* The bootstrap script and loadConfig of the config helper *)

\* the variables of process.env that loadConfig reads
EnvNames ==
    {"CONFIG_SERVER_APPLICATION", "ACTIVE_PROFILE", "CONFIG_SERVER_USER",
     "CONFIG_SERVER_PASSWORD", "CONFIG_SERVER_URL"}

\* error.code of a failure: "undefined" is an error that carries no code
ErrorCodes == {"EADDRINUSE", "ECONNREFUSED", "undefined"}

\* process.env[name] || ''  for a process.env that holds the names of env
OrEmpty(env, name) == IF name \in env THEN name ELSE ""

\* process.env[name]
OrUndefined(env, name) == IF name \in env THEN name ELSE "undefined"

\* the argument loadConfig hands to load
LoadOptions(env) ==
    [name     |-> OrEmpty(env, "CONFIG_SERVER_APPLICATION"),
     profiles |-> OrUndefined(env, "ACTIVE_PROFILE"),
     user     |-> OrEmpty(env, "CONFIG_SERVER_USER"),
     pass     |-> OrEmpty(env, "CONFIG_SERVER_PASSWORD"),
     endpoint |-> OrUndefined(env, "CONFIG_SERVER_URL")]

\* the process: where the callback of process.nextTick stands (pc), the
\* names process.env holds, the argument of load, the module variable config
\* ("undefined" until it is assigned), what config.get found config to be,
\* whether start was invoked, the code and the origin of the error caught,
\* and what the catch block did
Process(pc, env) ==
    [pc         |-> pc,
     env        |-> env,
     options    |-> LoadOptions({}),
     config     |-> "undefined",
     configRead |-> "never",
     started    |-> FALSE,
     error      |-> "none",
     thrownBy   |-> "",
     warned     |-> FALSE,
     logged     |-> FALSE,
     exited     |-> FALSE]

NoProcess == Process("idle", {})

\* control reaches the catch block with the error thrown by origin
Caught(p, origin, code) == [p EXCEPT !.pc = "catch", !.error = code, !.thrownBy = origin]

\* a bug: loadConfig() is called without await
loadConfig_notAwaited(file) ==
    /\ process.pc = "nextTick"
    /\ process' = [process EXCEPT !.pc      = "createConfig",
                                  !.env     = process.env \cup file,
                                  !.options = LoadOptions(process.env \cup file)]
    /\ UNCHANGED <<environments, projectEnvironments, req, res, promise, calls, snapshot,
                   milestones, event, reduction, router>>

\* the callback runs: try { await loadConfig() ...  loadConfig runs
\* dotenv.config(), which adds the variables of the .env file to process.env,
\* and calls load
loadConfig(file) ==
    /\ process.pc = "nextTick"
    /\ process' = [process EXCEPT !.pc      = "loadConfig",
                                  !.env     = process.env \cup file,
                                  !.options = LoadOptions(process.env \cup file)]
    /\ UNCHANGED <<environments, projectEnvironments, req, res, promise, calls, snapshot,
                   milestones, event, reduction, router>>

\* load settles: config = await load(...) assigns config, or the rejection
\* leaves loadConfig and is caught by the callback
loadSettles(fulfilled, code) ==
    /\ process.pc = "loadConfig"
    /\ process' = IF fulfilled
                  THEN [process EXCEPT !.pc = "createConfig", !.config = "loaded"]
                  ELSE Caught(process, "loadConfig", code)
    /\ UNCHANGED <<environments, projectEnvironments, req, res, promise, calls, snapshot,
                   milestones, event, reduction, router>>

\* the argument of start is evaluated: config.get(...) reads config, which
\* is a TypeError while config is undefined; createConfig returns or throws;
\* start is invoked with what it returns
createConfig(returns, code) ==
    /\ process.pc = "createConfig"
    /\ process' =
           IF process.config = "undefined"
           THEN Caught([process EXCEPT !.configRead = "undefined"], "config.get", "undefined")
           ELSE IF returns
           THEN [process EXCEPT !.pc = "start", !.configRead = process.config,
                                !.started = TRUE]
           ELSE Caught([process EXCEPT !.configRead = process.config], "createConfig", code)
    /\ UNCHANGED <<environments, projectEnvironments, req, res, promise, calls, snapshot,
                   milestones, event, reduction, router>>

\* await start(...) settles
startSettles(fulfilled, code) ==
    /\ process.pc = "start"
    /\ process' = IF fulfilled THEN [process EXCEPT !.pc = "listening"]
                  ELSE Caught(process, "start", code)
    /\ UNCHANGED <<environments, projectEnvironments, req, res, promise, calls, snapshot,
                   milestones, event, reduction, router>>

\* catch (error) { if (error.code === 'EADDRINUSE') console.warn(...)
\*                 else { console.error(error); process.exit() } }
catchError ==
    /\ process.pc = "catch"
    /\ process' = IF process.error = "EADDRINUSE"
                  THEN [process EXCEPT !.pc = "returned", !.warned = TRUE]
                  ELSE [process EXCEPT !.pc = "exited", !.logged = TRUE, !.exited = TRUE]
    /\ UNCHANGED <<environments, projectEnvironments, req, res, promise, calls, snapshot,
                   milestones, event, reduction, router>>

----------------------------------------------------------------------------
(* getStandardResponses of the OpenAPI utilities *)

\* the longest argument list of a call
MaxCodes == 3

\* const standardResponses = { 400: badRequestResponse, ... }
standardResponses ==
    (400 :> "badRequestResponse") @@ (401 :> "unauthorizedResponse") @@
    (403 :> "forbiddenResponse") @@ (404 :> "notFoundResponse") @@
    (409 :> "conflictResponse") @@ (413 :> "contentTooLargeResponse") @@
    (415 :> "unsupportedMediaTypeResponse")

\* keyof StandardResponses
StatusCodes == DOMAIN standardResponses

\* the argument lists ...statusCodes of up to MaxCodes codes
CodeLists(codes) == UNION {[1 .. n -> codes] : n \in 0 .. MaxCodes}

\* a bug: the accumulator is not spread into the new object
callback_noSpread(acc, statusCode) ==
    [c \in {statusCode} |-> standardResponses[statusCode]]

\* (acc, statusCode) => ({ ...acc, [statusCode]: standardResponses[statusCode] })
callback(acc, statusCode) ==
    [c \in DOMAIN acc \cup {statusCode} |->
        IF c = statusCode THEN standardResponses[statusCode] ELSE acc[c]]

\* statusCodes.reduce(callback, {}): the codes are folded from the left
RECURSIVE getStandardResponses(_)
getStandardResponses(statusCodes) ==
    IF Len(statusCodes) = 0 THEN EmptyMap
    ELSE callback(getStandardResponses(SubSeq(statusCodes, 1, Len(statusCodes) - 1)),
                  statusCodes[Len(statusCodes)])

\* a call: its arguments, whether it has returned, and what it returned
Reduction(statusCodes, returned, value) ==
    [statusCodes |-> statusCodes, returned |-> returned, value |-> value]

NoReduction == Reduction(<<>>, TRUE, EmptyMap)

\* the call returns
getStandardResponsesReturns ==
    /\ ~reduction.returned
    /\ reduction' = Reduction(reduction.statusCodes, TRUE,
                              getStandardResponses(reduction.statusCodes))
    /\ UNCHANGED <<environments, projectEnvironments, req, res, promise, calls, snapshot,
                   milestones, event, process, router>>

----------------------------------------------------------------------------
(* The routes of EnvironmentsController *)

\* the most segments the path of a request has
MaxSegments == 2

\* import { ADMIN, NONE } from '../../types/permissions'
ADMIN == "ADMIN"

NONE == "NONE"

Methods == {"get", "post", "put", "delete"}

\* segments of the path of a request: every literal of the route paths,
\* and the name of an environment
Segments == {"update", "validate", "project", "sort-order", "on", "off", "a"}

\* the paths of requests, below the mount point of the controller
Paths == UNION {[1 .. n -> Segments] : n \in 0 .. MaxSegments}

\* the argument of this.route: the path is the list of its segments, and
\* responses are those of openApiService.validPath ({} without middleware)
RouteOption(method, path, handler, permission, responses) ==
    [method |-> method, path |-> path, handler |-> handler,
     permission |-> permission, responses |-> responses]

\* { [status]: schema, ...getStandardResponses(...) }
Responses(status, schema, statusCodes) ==
    getStandardResponses(statusCodes) @@ (status :> schema)

\* the calls of this.route in the constructor, in their order
RouteOptions ==
    <<RouteOption("get", <<>>, "getAllEnvironments", NONE,
                  Responses(200, "environmentsSchema", <<401, 403>>)),
      RouteOption("post", <<>>, "createEnvironment", ADMIN, EmptyMap),
      RouteOption("put", <<"update", ":name">>, "updateEnvironment", ADMIN, EmptyMap),
      RouteOption("delete", <<":name">>, "deleteEnvironment", ADMIN, EmptyMap),
      RouteOption("post", <<"validate">>, "validateEnvironment", ADMIN, EmptyMap),
      RouteOption("get", <<":name">>, "getEnvironment", NONE,
                  Responses(200, "environmentSchema", <<401, 403, 404>>)),
      RouteOption("get", <<"project", ":projectId">>, "getProjectEnvironments", NONE,
                  Responses(200, "environmentsProjectSchema", <<401, 403, 404>>)),
      RouteOption("put", <<"sort-order">>, "updateSortOrder", ADMIN,
                  Responses(200, "emptyResponse", <<401, 403, 404>>)),
      RouteOption("post", <<":name", "on">>, "toggleEnvironmentOn", ADMIN,
                  Responses(204, "emptyResponse", <<401, 403, 404>>)),
      RouteOption("post", <<":name", "off">>, "toggleEnvironmentOff", ADMIN,
                  Responses(204, "emptyResponse", <<401, 403, 404>>))>>

\* the routes registered so far, the last request, and the index of the
\* route that request was handed to (0: none)
Router(routes, method, path, matched) ==
    [routes |-> routes, method |-> method, path |-> path, matched |-> matched]

NoRouter == Router(<<>>, "", <<>>, 0)

Constructed == Len(router.routes) = Len(RouteOptions)

\* a named parameter of a route path matches any segment
IsParameter(segment) == segment \in {":name", ":projectId"}

\* the router's match of a request against one route: the same method, and
\* a path that agrees with the route path segment by segment
Matches(route, method, path) ==
    /\ route.method = method
    /\ Len(route.path) = Len(path)
    /\ \A i \in 1 .. Len(path) : IsParameter(route.path[i]) \/ route.path[i] = path[i]

\* the first route, in the order of registration, that matches
Matched(routes, method, path) ==
    IF \E i \in 1 .. Len(routes) : Matches(routes[i], method, path)
    THEN CHOOSE i \in 1 .. Len(routes) :
             /\ Matches(routes[i], method, path)
             /\ \A j \in 1 .. i - 1 : ~Matches(routes[j], method, path)
    ELSE 0

\* a bug: the route is registered without its permission
route_unguarded(options) ==
    /\ ~Constructed
    /\ options = RouteOptions[Len(router.routes) + 1]
    /\ router' = [router EXCEPT !.routes = Append(router.routes,
                                                  [options EXCEPT !.permission = NONE])]
    /\ UNCHANGED <<environments, projectEnvironments, req, res, promise, calls, snapshot,
                   milestones, event, process, reduction>>

\* this.route(options): the next call of the constructor
route(options) ==
    /\ ~Constructed
    /\ options = RouteOptions[Len(router.routes) + 1]
    /\ router' = [router EXCEPT !.routes = Append(router.routes, options)]
    /\ UNCHANGED <<environments, projectEnvironments, req, res, promise, calls, snapshot,
                   milestones, event, process, reduction>>

\* a request reaches the controller and is handed to the route it matches
dispatch(method, path) ==
    /\ Constructed
    /\ router' = Router(router.routes, method, path, Matched(router.routes, method, path))
    /\ UNCHANGED <<environments, projectEnvironments, req, res, promise, calls, snapshot,
                   milestones, event, process, reduction>>

----------------------------------------------------------------------------
(* Specification *)

Init ==
    /\ environments = {}
    /\ projectEnvironments = {}
    /\ req = NoRequest
    /\ res = NoResponse
    /\ promise = NoPromise
    /\ calls = NoCalls
    /\ snapshot = {}
    /\ milestones = <<>>
    /\ event = NoEvent
    /\ process = NoProcess
    /\ reduction = NoReduction
    /\ router = NoRouter

\* what the requests of the admin API leave alone
Elsewhere == <<promise, calls, snapshot, milestones, event, Wiring>>

Next ==
    \/ \E body \in CreateBodies : \E storeDefault \in StoreDefaults(body) :
           createEnvironment(body, storeDefault) /\ UNCHANGED Elsewhere
    \/ \E name \in Names, body \in UpdateBodies :
           updateEnvironment(name, body) /\ UNCHANGED Elsewhere
    \/ \E name \in Names : deleteEnvironment(name) /\ UNCHANGED Elsewhere
    \/ \E body \in [name : RequestNames] : validateEnvironment(body) /\ UNCHANGED Elsewhere
    \/ getAllEnvironments /\ UNCHANGED Elsewhere
    \/ \E body \in SortOrderSchema : updateSortOrder(body) /\ UNCHANGED Elsewhere
    \/ \E name \in Names : toggleEnvironmentOn(name) /\ UNCHANGED Elsewhere
    \/ \E name \in Names : toggleEnvironmentOff(name) /\ UNCHANGED Elsewhere
    \/ \E name \in Names : getEnvironment(name) /\ UNCHANGED Elsewhere
    \/ \E projectId \in ProjectIds : getProjectEnvironments(projectId) /\ UNCHANGED Elsewhere
    \/ \E projectId \in ProjectIds, name \in Names :
           enableProjectEnvironment(projectId, name) /\ UNCHANGED Elsewhere

Spec == Init /\ [][Next]_vars

MilestonesInit ==
    /\ environments = {}
    /\ projectEnvironments = {}
    /\ req = NoRequest
    /\ res = NoResponse
    /\ promise = NoPromise
    /\ calls = NoCalls
    /\ snapshot = {}
    /\ milestones \in InitialMilestones(MaxInitialMilestones)
    /\ event = NoEvent
    /\ process = NoProcess
    /\ reduction = NoReduction
    /\ router = NoRouter

MilestonesNext ==
    \/ addMilestone
    \/ \E index \in Indices, name \in TypedNames : milestoneNameChanged(index, name)

SpecMilestones == MilestonesInit /\ [][MilestonesNext]_vars

AwaitNext ==
    \/ \E request \in AwaitRequests : handlerInvoked(request)
    \/ \E storeDefault \in SortOrders : serviceSettles(storeDefault)
    \/ handlerResumes

SpecAwait == Init /\ [][AwaitNext]_vars

RaceInit ==
    /\ environments \in RaceStores
    /\ snapshot = environments
    /\ projectEnvironments = {}
    /\ req = NoRequest
    /\ res = NoResponse
    /\ promise = NoPromise
    /\ calls = NoCalls
    /\ milestones = <<>>
    /\ event = NoEvent
    /\ process = NoProcess
    /\ reduction = NoReduction
    /\ router = NoRouter

RaceNext ==
    \/ \E i \in CallIds, body \in SortOrderSchema : raceInvoked(i, body)
    \/ \E i \in CallIds : raceCommits(i)
    \/ \E i \in CallIds : raceResumes(i)

SpecRace == RaceInit /\ [][RaceNext]_vars

BootstrapInit ==
    /\ environments = {}
    /\ projectEnvironments = {}
    /\ req = NoRequest
    /\ res = NoResponse
    /\ promise = NoPromise
    /\ calls = NoCalls
    /\ snapshot = {}
    /\ milestones = <<>>
    /\ event = NoEvent
    /\ process \in {Process("nextTick", env) : env \in SUBSET EnvNames}
    /\ reduction = NoReduction
    /\ router = NoRouter

BootstrapNext ==
    \/ \E file \in SUBSET EnvNames : loadConfig(file)
    \/ \E fulfilled \in BOOLEAN, code \in ErrorCodes : loadSettles(fulfilled, code)
    \/ \E returns \in BOOLEAN, code \in ErrorCodes : createConfig(returns, code)
    \/ \E fulfilled \in BOOLEAN, code \in ErrorCodes : startSettles(fulfilled, code)
    \/ catchError

SpecBootstrap == BootstrapInit /\ [][BootstrapNext]_vars

ResponsesInit ==
    /\ environments = {}
    /\ projectEnvironments = {}
    /\ req = NoRequest
    /\ res = NoResponse
    /\ promise = NoPromise
    /\ calls = NoCalls
    /\ snapshot = {}
    /\ milestones = <<>>
    /\ event = NoEvent
    /\ process = NoProcess
    /\ reduction \in {Reduction(statusCodes, FALSE, EmptyMap) :
                         statusCodes \in CodeLists(StatusCodes)}
    /\ router = NoRouter

ResponsesNext == getStandardResponsesReturns

SpecResponses == ResponsesInit /\ [][ResponsesNext]_vars

ControllerNext ==
    \/ \E i \in 1 .. Len(RouteOptions) : route(RouteOptions[i])
    \/ \E method \in Methods, path \in Paths : dispatch(method, path)

SpecController == Init /\ [][ControllerNext]_vars


----------------------------------------------------------------------------
(* Properties *)

NamesOf(envs) == {e.name : e \in envs}

SortOrdersOf(envs) == {<<e.name, e.sortOrder>> : e \in envs}

BodyRows(response) == {response.body[i] : i \in 1 .. Len(response.body)}

UniqueNames(envs) == \A x, y \in envs : x.name = y.name => x = y

\* C1: updateSortOrder is all-or-nothing. When a name of the order map does
\* not exist the request fails with NotFound (no success status is written)
\* and every environment, the existing ones the map names included, has the
\* sort order it had before the request.
C1_SortOrderAllOrNothing ==
    [][(/\ req'.op = "updateSortOrder"
        /\ \E n \in DOMAIN req'.orderMap : ~Exists(environments, n))
       => /\ res'.error = "NotFoundError"
          /\ res'.status = 0
          /\ SortOrdersOf(environments') = SortOrdersOf(environments)]_vars

\* a failed sort-order update that names an existing environment whose order
\* it would have changed, together with a missing one
C1_Witness ==
    /\ req.op = "updateSortOrder"
    /\ res.error = "NotFoundError"
    /\ \E n \in DOMAIN req.orderMap :
           /\ Exists(environments, n)
           /\ Row(environments, n).sortOrder # req.orderMap[n]

\* C2: a successful updateSortOrder gives every named environment its mapped
\* sort order, leaves every environment the map does not name as it was
\* (sort order, enabled flag, type), and adds or removes no environment.
C2_SortOrderFrame ==
    [][(req'.op = "updateSortOrder" /\ res'.status = 200)
       => /\ \A n \in DOMAIN req'.orderMap :
                 /\ Exists(environments', n)
                 /\ \A e \in environments' : e.name = n => e.sortOrder = req'.orderMap[n]
          /\ \A e \in environments : e.name \notin DOMAIN req'.orderMap => e \in environments'
          /\ \A e \in environments' : e.name \notin DOMAIN req'.orderMap => e \in environments
          /\ NamesOf(environments') = NamesOf(environments)
          /\ Cardinality(environments') = Cardinality(environments)]_vars

\* a successful update that names one environment and leaves another one out
C2_Witness ==
    /\ req.op = "updateSortOrder"
    /\ res.status = 200
    /\ DOMAIN req.orderMap # {}
    /\ \E e \in environments : e.name \notin DOMAIN req.orderMap
    /\ \E e \in environments : e.name \in DOMAIN req.orderMap /\ e.sortOrder = MaxSortOrder

\* C3: environment names are unique in every reachable state, and a
\* createEnvironment with a name that exists fails with Conflict and leaves
\* the Environment table as it was.
C3_UniqueNames ==
    /\ UniqueNames(environments)
    /\ [][/\ UniqueNames(environments')
          /\ (req'.op = "createEnvironment" /\ Exists(environments, req'.name))
             => /\ res'.error = "ConflictError"
                /\ res'.status = 0
                /\ environments' = environments]_vars

\* a rejected second creation whose attributes differ from the existing row's
C3_Witness ==
    /\ req.op = "createEnvironment"
    /\ res.error = "ConflictError"
    /\ Exists(environments, req.name)
    /\ Row(environments, req.name).type # req.type

\* C4: a createEnvironment with a valid new name succeeds, and a get of
\* that name handled right after it answers with an environment whose
\* enabled flag is false.
C4_CreatedDisabled ==
    [][/\ (req'.op = "createEnvironment" /\ req'.name # "" /\ ~Exists(environments, req'.name))
          => res'.status = 201
       /\ (/\ req.op = "createEnvironment" /\ res.status = 201
           /\ req'.op = "getEnvironment" /\ req'.name = req.name)
          => /\ res'.status = 200
             /\ Len(res'.body) = 1
             /\ res'.body[1].name = req.name
             /\ res'.body[1].enabled = FALSE]_vars

\* an environment has just been created while another one is enabled
C4_Witness ==
    /\ req.op = "createEnvironment"
    /\ res.status = 201
    /\ Exists(environments, req.name)
    /\ \E e \in environments : e.name # req.name /\ e.enabled

\* C5: the answer of getProjectEnvironments(P) holds exactly the environments
\* that are globally enabled and enabled for project P, each once; none with
\* a false global flag is in it.
C5_ProjectEnvironments ==
    (req.op = "getProjectEnvironments" /\ res.status = 200)
    => /\ BodyRows(res) =
              {e \in environments :
                  /\ e.enabled
                  /\ \E l \in projectEnvironments :
                         /\ l.projectId = req.projectId
                         /\ l.environmentName = e.name
                         /\ l.enabledForProject}
       /\ Len(res.body) = Cardinality(BodyRows(res))
       /\ \A i \in 1 .. Len(res.body) : res.body[i].enabled

\* a project with one environment in the answer and a linked one left out
\* because it is globally disabled
C5_Witness ==
    /\ req.op = "getProjectEnvironments"
    /\ res.status = 200
    /\ Len(res.body) = 1
    /\ \E e \in environments :
           ~e.enabled /\ e.name \in LinkedTo(projectEnvironments, req.projectId)

\* the names getProjectEnvironments(projectId) answers with in a given store
Available(envs, links, projectId) ==
    LET r == service_getProjectEnvironments(envs, links, projectId)
    IN {r.value[i].name : i \in 1 .. Len(r.value)}

\* C6: when an environment that is globally enabled and enabled for project
\* P is toggled off, getProjectEnvironments(P) no longer holds it and its
\* project link is kept; when an environment with a project link for P is
\* toggled on, getProjectEnvironments(P) holds it again, with no link
\* operation in between.
C6_DisableHidesEnableRestores ==
    [][\A p \in ExistingProjects :
          /\ (/\ req'.op = "toggleEnvironmentOff"
              /\ req'.name \in Available(environments, projectEnvironments, p))
             => /\ res'.status = 204
                /\ req'.name \notin Available(environments', projectEnvironments', p)
                /\ req'.name \in LinkedTo(projectEnvironments', p)
          /\ (/\ req'.op = "toggleEnvironmentOn"
              /\ Exists(environments, req'.name)
              /\ ~Row(environments, req'.name).enabled
              /\ req'.name \in LinkedTo(projectEnvironments, p))
             => /\ res'.status = 204
                /\ req'.name \in Available(environments', projectEnvironments', p)]_vars

\* an environment that has a project link has just been toggled off
C6_Witness ==
    /\ req.op = "toggleEnvironmentOff"
    /\ res.status = 204
    /\ \E p \in ExistingProjects :
           /\ req.name \in LinkedTo(projectEnvironments, p)
           /\ req.name \notin Available(environments, projectEnvironments, p)

\* C7: enabling an existing environment for an existing project fails with
\* PreconditionFailed and changes no project link while the environment is
\* globally disabled; it succeeds, and the link is active afterwards, only
\* when the environment is globally enabled.
C7_ProjectEnableGated ==
    [][(/\ req'.op = "enableProjectEnvironment"
        /\ req'.projectId \in ExistingProjects
        /\ Exists(environments, req'.name))
       => IF Row(environments, req'.name).enabled
          THEN /\ res'.status = 204
               /\ req'.name \in LinkedTo(projectEnvironments', req'.projectId)
          ELSE /\ res'.error = "PreconditionFailedError"
               /\ res'.status = 0
               /\ projectEnvironments' = projectEnvironments]_vars

\* a project-level enable of a globally disabled environment was refused
C7_Witness ==
    /\ req.op = "enableProjectEnvironment"
    /\ res.error = "PreconditionFailedError"
    /\ Exists(environments, req.name)
    /\ ~Row(environments, req.name).enabled
    /\ req.name \notin LinkedTo(projectEnvironments, req.projectId)

\* C8: in every reachable state getAll() holds every environment exactly
\* once, by sortOrder ascending and by name ascending among equal sort
\* orders, and the getAllEnvironments handler answers with that sequence.
C8_GetAllOrdered ==
    LET all == service_getAll(environments).value
    IN /\ Len(all) = Cardinality(environments)
       /\ \A e \in environments : \E i \in 1 .. Len(all) : all[i] = e
       /\ \A i, j \in 1 .. Len(all) :
              i < j => \/ all[i].sortOrder < all[j].sortOrder
                       \/ /\ all[i].sortOrder = all[j].sortOrder
                          /\ NameRank(all[i].name) < NameRank(all[j].name)
       /\ req.op = "getAllEnvironments" => (res.status = 200 /\ res.body = all)

\* getAll answered with two environments of equal sort order, the second of
\* which is enabled and the first is not
C8_Witness ==
    /\ req.op = "getAllEnvironments"
    /\ Len(res.body) = 2
    /\ res.body[1].sortOrder = res.body[2].sortOrder
    /\ res.body[2].enabled /\ ~res.body[1].enabled

\* C9: deleteEnvironment of an environment that a project link references
\* fails with Conflict, and get(name) answers afterwards as it did before.
C9_DeleteReferenced ==
    [][(/\ req'.op = "deleteEnvironment"
        /\ Referenced(projectEnvironments, req'.name))
       => /\ res'.error = "ConflictError"
          /\ res'.status = 0
          /\ service_get(environments', req'.name).error = ""
          /\ service_get(environments', req'.name).value
                 = service_get(environments, req'.name).value]_vars

\* the refused deletion of the only environment enabled for a project
C9_Witness ==
    /\ req.op = "deleteEnvironment"
    /\ res.error = "ConflictError"
    /\ \E p \in ExistingProjects : LinkedTo(projectEnvironments, p) = {req.name}
    /\ Exists(environments, req.name)

\* C10: deleteEnvironment of the last globally enabled environment fails
\* with Conflict, and no delete step leads from a state with an enabled
\* environment to a state with none.
C10_DeleteLastEnabled ==
    [][req'.op = "deleteEnvironment"
       => /\ LastEnabled(environments, req'.name)
             => /\ res'.error = "ConflictError"
                /\ res'.status = 0
                /\ environments' = environments
          /\ EnabledEnvironments(environments) # {}
             => EnabledEnvironments(environments') # {}]_vars

\* the refused deletion of the last enabled environment, which no project
\* link references, while another (disabled) environment exists
C10_Witness ==
    /\ req.op = "deleteEnvironment"
    /\ res.error = "ConflictError"
    /\ LastEnabled(environments, req.name)
    /\ ~Referenced(projectEnvironments, req.name)
    /\ Cardinality(environments) = 2

\* the steps that toggle, update or re-order environments
Mutators == {"toggleEnvironmentOn", "toggleEnvironmentOff", "updateEnvironment", "updateSortOrder"}

\* C11: the lifecycle of an environment. A name enters the table only by a
\* createEnvironment step, with enabled=false; toggling on an existing
\* environment leaves it enabled and toggling off leaves it disabled, from
\* either state; a name leaves the table only by a deleteEnvironment step
\* answered 204, taken when no project link references it and it is not the
\* last enabled environment; and no toggle, update or sort-order step adds a
\* name, so none brings a deleted environment back.
C11_Lifecycle ==
    [][/\ \A n \in NamesOf(environments') \ NamesOf(environments) :
              /\ req'.op = "createEnvironment" /\ req'.name = n
              /\ res'.status = 201
              /\ ~Row(environments', n).enabled
       /\ \A n \in NamesOf(environments) \ NamesOf(environments') :
              /\ req'.op = "deleteEnvironment" /\ req'.name = n
              /\ res'.status = 204
              /\ ~Referenced(projectEnvironments, n)
              /\ ~LastEnabled(environments, n)
       /\ (req'.op = "toggleEnvironmentOn" /\ Exists(environments, req'.name))
          => (Exists(environments', req'.name) /\ Row(environments', req'.name).enabled)
       /\ (req'.op = "toggleEnvironmentOff" /\ Exists(environments, req'.name))
          => (Exists(environments', req'.name) /\ ~Row(environments', req'.name).enabled)
       /\ req'.op \in Mutators
          => NamesOf(environments') \subseteq NamesOf(environments)]_vars

\* an environment that was enabled for a while (the other one is linked to a
\* project, which needs it enabled) has been deleted
C11_Witness ==
    /\ req.op = "deleteEnvironment"
    /\ res.status = 204
    /\ ~Exists(environments, req.name)
    /\ \E e \in environments : e.enabled /\ Referenced(projectEnvironments, e.name)

\* the steps that address one environment by name and need it to exist
ByName == {"getEnvironment", "updateEnvironment", "toggleEnvironmentOn",
           "toggleEnvironmentOff", "deleteEnvironment"}

\* C12: get, updateEnvironment, toggleEnvironment (on and off) and
\* deleteEnvironment of a name that does not exist fail with NotFound, and
\* leave the environments and the project links as they were.
C12_NotFound ==
    [][(req'.op \in ByName /\ ~Exists(environments, req'.name))
       => /\ res'.error = "NotFoundError"
          /\ res'.status = 0
          /\ environments' = environments
          /\ projectEnvironments' = projectEnvironments]_vars

\* an update of a missing name was refused while another environment, linked
\* to a project, exists
C12_Witness ==
    /\ req.op = "updateEnvironment"
    /\ res.error = "NotFoundError"
    /\ ~Exists(environments, req.name)
    /\ projectEnvironments # {}

\* C13: a successful toggle on leaves the named environment enabled and a
\* successful toggle off leaves it disabled, whatever it was before; every
\* other environment is unchanged, and the named one keeps its sort order
\* and type; no environment is added or removed.
C13_ToggleFrame ==
    [][(req'.op \in {"toggleEnvironmentOn", "toggleEnvironmentOff"} /\ res'.status = 204)
       => /\ Exists(environments, req'.name)
          /\ service_get(environments', req'.name).error = ""
          /\ service_get(environments', req'.name).value[1].enabled
                 = (req'.op = "toggleEnvironmentOn")
          /\ environments' =
                 {IF e.name = req'.name
                     THEN [e EXCEPT !.enabled = (req'.op = "toggleEnvironmentOn")]
                     ELSE e : e \in environments}
          /\ projectEnvironments' = projectEnvironments]_vars

\* an environment was toggled on while the other one, of another sort order,
\* is disabled
C13_Witness ==
    /\ req.op = "toggleEnvironmentOn"
    /\ res.status = 204
    /\ Row(environments, req.name).enabled
    /\ \E e \in environments :
           /\ e.name # req.name /\ ~e.enabled
           /\ e.sortOrder # Row(environments, req.name).sortOrder

C15_NameImmutable ==
    [][(req'.op = "updateEnvironment" /\ res'.status = 200)
       => /\ NamesOf(environments') = NamesOf(environments)
          /\ Cardinality(environments') = Cardinality(environments)
          /\ \A e \in environments : e.name # req'.name => e \in environments'
          /\ Exists(environments, req'.name)
          /\ [Row(environments, req'.name) EXCEPT !.type = req'.type] \in environments']_vars

\* an update whose patch names the other, existing environment, whose type
\* is not the one of the patch
C15_Witness ==
    /\ req.op = "updateEnvironment"
    /\ res.status = 200
    /\ req.patch # req.name
    /\ Exists(environments, req.patch)
    /\ Row(environments, req.patch).type # req.type
    /\ Row(environments, req.name).type = req.type

\* C18: the milestone at every index i has sortOrder i, from the start and
\* after every click and name change; a click on 'Add milestone' appends one
\* milestone, named 'Milestone n+1' with sortOrder n for a list of n, and
\* changes none of the n before it.
C18_MilestoneSortOrder ==
    /\ [](\A p \in 1 .. Len(milestones) : milestones[p].sortOrder = p - 1)
    /\ [][event'.kind = "addMilestone"
          => /\ Len(milestones') = Len(milestones) + 1
             /\ SubSeq(milestones', 1, Len(milestones)) = milestones
             /\ milestones'[Len(milestones')].name
                    = "Milestone " \o ToString(Len(milestones) + 1)
             /\ milestones'[Len(milestones')].sortOrder = Len(milestones)]_vars

\* a milestone was added to a list that holds a renamed milestone
C18_Witness ==
    /\ event.kind = "addMilestone"
    /\ Len(milestones) = 3
    /\ milestones[3].name = "Milestone 3"
    /\ milestones[2].name = "Alpha"

\* C19: milestoneNameChanged(index, name) gives the milestone at that index
\* the name and changes nothing else: the length, every other milestone and
\* the sortOrder of the renamed one are as before; an index outside the list
\* changes nothing.
C19_NameChangedFrame ==
    [][event'.kind = "milestoneNameChanged"
       => /\ Len(milestones') = Len(milestones)
          /\ \A p \in 1 .. Len(milestones) :
                 IF p - 1 = event'.index
                 THEN /\ milestones'[p].name = event'.name
                      /\ milestones'[p].sortOrder = milestones[p].sortOrder
                 ELSE milestones'[p] = milestones[p]
          /\ event'.index >= Len(milestones) => milestones' = milestones]_vars

\* the first of three milestones was renamed, the others have other names
C19_Witness ==
    /\ event.kind = "milestoneNameChanged"
    /\ event.index = 0
    /\ Len(milestones) = 3
    /\ milestones[1].name = "Alpha"
    /\ milestones[2].name = "Milestone 1"
    /\ milestones[3].name = "Milestone 3"

\* C20: a handler writes its success status (201 create, 200 update, 204
\* delete, 201 validate, 200 sort-order, 204 toggle on and off) only once
\* the service call it awaits has returned; while the call is pending no
\* status is written, and when the call throws the handler writes no status
\* and the error reaches the caller.
C20_StatusAfterAwait ==
    /\ [](promise.state # "none" => res.status = 0)
    /\ [][/\ (res'.status # 0 /\ res' # res)
             => /\ promise.state = "fulfilled"
                /\ res'.status = SuccessStatus(req.op)
                /\ req' = req
          /\ (promise.state = "rejected" /\ promise'.state = "none")
             => /\ res'.status = 0
                /\ res'.error = promise.error
                /\ res'.error # ""]_vars

\* a deletion was answered 204 after its service call returned
C20_Witness ==
    /\ promise.state = "none"
    /\ req.op = "deleteEnvironment"
    /\ res.status = 204
    /\ ~Exists(environments, req.name)
    /\ environments # {}

\* the table and the two outcomes of running request i, then request j
Serial(i, j) ==
    LET first  == service_updateSortOrder(snapshot, calls[i].body)
        second == service_updateSortOrder(first.environments, calls[j].body)
    IN [environments |-> second.environments, first |-> first.error, second |-> second.error]

\* C16: when two updateSortOrder requests that ran at once have both been
\* answered, the table and the two answers are those of running one request
\* and then the other, in one of the two orders.
C16_SortOrderSerialized ==
    (\A i \in CallIds : calls[i].pc = "done")
    => \E i, j \in CallIds :
           /\ i # j
           /\ environments = Serial(i, j).environments
           /\ calls[i].error = Serial(i, j).first
           /\ calls[j].error = Serial(i, j).second
           /\ calls[i].status = (IF Serial(i, j).first = "" THEN 200 ELSE 0)
           /\ calls[j].status = (IF Serial(i, j).second = "" THEN 200 ELSE 0)

\* both requests are answered 200, they gave one environment different
\* orders and only one of them re-ordered the other environment
C16_Witness ==
    /\ \A i \in CallIds : calls[i].pc = "done" /\ calls[i].status = 200
    /\ \E n \in DOMAIN calls[1].body \cap DOMAIN calls[2].body :
           calls[1].body[n] # calls[2].body[n]
    /\ DOMAIN calls[1].body # DOMAIN calls[2].body
    /\ environments # snapshot

\* C21: the bootstrap script invokes start only once loadConfig has
\* completed successfully, and config.get never reads config before it is
\* assigned; a failure of loadConfig or start whose code is EADDRINUSE is
\* answered with a warning and no process.exit(), any other failure with
\* process.exit().
C21_Bootstrap ==
    /\ [](process.started => process.config = "loaded")
    /\ [](process.configRead \in {"never", "loaded"})
    /\ [](process.warned => ~process.exited /\ process.error = "EADDRINUSE")
    /\ [](process.exited => process.error \notin {"none", "EADDRINUSE"})
    /\ [][/\ process'.started /\ ~process.started
              => process.pc = "createConfig" /\ process.config = "loaded"
          /\ process.pc = "loadConfig" /\ process'.pc = "catch"
              => process'.config = "undefined" /\ ~process'.started
          /\ process.pc = "catch" /\ process.error = "EADDRINUSE"
              => process'.warned /\ ~process'.exited /\ process'.pc = "returned"
          /\ process.pc = "catch" /\ process.error # "EADDRINUSE"
              => process'.exited /\ ~process'.warned
          /\ process.pc \in {"returned", "exited", "listening"}
              => process' = process]_vars

\* start was invoked after config was loaded and failed with EADDRINUSE:
\* the process warned and went on
C21_Witness ==
    /\ process.pc = "returned"
    /\ process.thrownBy = "start"
    /\ process.started /\ process.configRead = "loaded"
    /\ process.warned /\ ~process.exited

\* the codes of a list
CodesOf(statusCodes) == {statusCodes[i] : i \in 1 .. Len(statusCodes)}

\* C22: getStandardResponses returns a map whose keys are exactly the codes
\* passed, each mapped to its standard response; a list of the same codes in
\* another order or with other repetitions gives the same map, and no codes
\* give the empty map.
C22_StandardResponses ==
    reduction.returned
    => LET statusCodes == reduction.statusCodes
           value       == reduction.value
       IN /\ DOMAIN value = CodesOf(statusCodes)
          /\ \A c \in CodesOf(statusCodes) : value[c] = standardResponses[c]
          /\ \A other \in CodeLists(CodesOf(statusCodes)) :
                 CodesOf(other) = CodesOf(statusCodes)
                 => getStandardResponses(other) = value
          /\ statusCodes = <<>> => value = EmptyMap

\* a call with a repeated code between two others has returned
C22_Witness ==
    /\ reduction.returned
    /\ reduction.statusCodes = <<404, 401, 404>>
    /\ DOMAIN reduction.value = {401, 404}

\* the handlers that can change state
StateChanging ==
    {"createEnvironment", "updateEnvironment", "deleteEnvironment", "validateEnvironment",
     "updateSortOrder", "toggleEnvironmentOn", "toggleEnvironmentOff"}

\* the handlers of the three GET routes
Readers == {"getAllEnvironments", "getEnvironment", "getProjectEnvironments"}

\* handlers of the registered routes that carry a permission
RegisteredWith(permission) ==
    {router.routes[i].handler :
        i \in {j \in 1 .. Len(router.routes) : router.routes[j].permission = permission}}

\* C23: every route of a state-changing handler is registered with ADMIN,
\* the routes registered with NONE are the three GET routes and no other,
\* and a request that is handed to a state-changing handler, or that is not
\* a GET, is handed to a route registered with ADMIN.
C23_RoutePermissions ==
    /\ \A i \in 1 .. Len(router.routes) :
           /\ router.routes[i].handler \in StateChanging
              => router.routes[i].permission = ADMIN
           /\ router.routes[i].permission = NONE
              => router.routes[i].method = "get" /\ router.routes[i].handler \in Readers
    /\ Constructed => /\ RegisteredWith(NONE) = Readers
                      /\ RegisteredWith(ADMIN) = StateChanging
    /\ router.matched # 0
       => /\ router.routes[router.matched].handler \in StateChanging
             => router.routes[router.matched].permission = ADMIN
          /\ router.method # "get" => router.routes[router.matched].permission = ADMIN

\* a POST of /a/off is handed to toggleEnvironmentOff, registered with ADMIN
C23_Witness ==
    /\ Constructed
    /\ router.method = "post"
    /\ Len(router.path) = 2 /\ router.path[1] = "a" /\ router.path[2] = "off"
    /\ router.matched # 0
    /\ router.routes[router.matched].handler = "toggleEnvironmentOff"
    /\ router.routes[router.matched].permission = ADMIN

====
